---------------------------- MODULE Spec2Model ----------------------------
(***************************************************************************)
(* The identity and session core of src/src/lib/auth.ts: the in-memory     *)
(* user registry and session store, password hashing, the signed 24-hour   *)
(* token, and the async operations built on them.  An async function runs  *)
(* on the JavaScript event loop: it executes atomically from one await to  *)
(* the next, and other calls may run while it is suspended at an await.    *)
(* Each action below is one such atomic segment.                           *)
(*                                                                         *)
(* Strings whose characters the code inspects (emails, passwords) are      *)
(* tuples of one-character strings.  Time is Date.now(), in milliseconds.  *)
(***************************************************************************)
EXTENDS Integers, Sequences, FiniteSets, TLC

VARIABLES
    users,      \* the registry Map: userId -> User & { password }
    sessions,   \* the session Map: sessionId -> { userId, expiresAt }
    clock,      \* Date.now()
    seeding,    \* where the initializeUsers() call of module load stands
    calls,      \* the calls of registerUser, authenticateUser and updateUser
    last,       \* the getUserById or getUserByToken call that has just returned
    cookie,     \* the browser's 'token' cookie: empty, or the one token
    loggedOut,  \* the tokens a logout has discarded from the cookie
    currentUser \* the user state of the AuthProvider

vars == <<users, sessions, clock, seeding, calls, last, cookie, loggedOut, currentUser>>

(***************************************************************************)
(* Bounds of the model.                                                    *)
(***************************************************************************)
\* Number of calls of the exported operations in one behaviour.
MaxCalls == 2
\* Number of calls in a behaviour of racing registrations.
RaceCalls == 3
\* Number of calls that issue a token in a behaviour that follows tokens.
TokenCalls == 1
\* Number of distinct values Math.random() can yield in an identifier.
MaxRand == 2
\* Number of distinct salts bcrypt can draw.
MaxSalt == 1
\* Length of the longest password given to validatePassword on its own.
MaxPasswordLen == 9

(***************************************************************************)
(* Program constants.                                                      *)
(***************************************************************************)
saltRounds == 12
MinPasswordLength == 8
MsPerSecond == 1000
\* 24 * 60 * 60 * 1000: the session lifetime in milliseconds.
SessionTtlMs == 24 * 60 * 60 * 1000
\* '24h': the token lifetime, in the seconds of the JWT exp claim.
TokenTtlSeconds == 24 * 60 * 60
TokenTtlMs == TokenTtlSeconds * MsPerSecond
JWT_SECRET == "default-secret-key"

(***************************************************************************)
(* Input values.                                                           *)
(***************************************************************************)
AdminEmail == <<"a", "d", "m", "i", "n", "@", "c", "l", "o", "u", "d", "p", "r", "o", ".", "d", "e", "v">>
DemoEmail == <<"u", "s", "e", "r", "@", "d", "e", "m", "o", ".", "c", "o", "m">>
AdminPassword == <<"a", "d", "m", "i", "n", "1", "2", "3", "!">>
DemoPassword == <<"u", "s", "e", "r", "1", "2", "3", "!">>
RealUserEmail == <<"r", "e", "a", "l", "u", "s", "e", "r", "@", "x", ".", "c", "o", "m">>
BadEmail == <<"r", "e", "a", "l", "u", "s", "e", "r", ".", "x", ".", "c", "o", "m">>
StrongPass == <<"S", "t", "r", "0", "n", "g", "!", "P", "a", "s", "s">>
OtherPass == <<"0", "t", "h", "e", "r", "P", "@", "s", "s">>
WeakPass == <<"s", "h", "o", "r", "t", "1">>
UpperAdminEmail == <<"A", "d", "m", "i", "n", "@", "c", "l", "o", "u", "d", "p", "r", "o", ".", "d", "e", "v">>
NoSpecialPass == <<"P", "a", "s", "s", "w", "0", "r", "d", "X">>
\* A key an outsider signs with: any key other than the server's.
AttackerKey == "attacker-key"

\* The instants the clock takes: around a token's issue and around its
\* expiry one day later, on and off the whole second.
Instants ==
    {0, 500, 1000, SessionTtlMs - 1, SessionTtlMs, SessionTtlMs + 499, SessionTtlMs + 1000}
\* The first second.
EarlyInstants == {0, MsPerSecond}

RegisterNames == {"Real User"}
Rands == 1..MaxRand
Salts == 1..MaxSalt
Calls == 1..(IF RaceCalls > MaxCalls THEN RaceCalls ELSE MaxCalls)

(***************************************************************************)
(* Character classes of the regular expressions.                           *)
(***************************************************************************)
LowerCase ==
    {"a", "b", "c", "d", "e", "f", "g", "h", "i", "j", "k", "l", "m",
     "n", "o", "p", "q", "r", "s", "t", "u", "v", "w", "x", "y", "z"}
UpperCase ==
    {"A", "B", "C", "D", "E", "F", "G", "H", "I", "J", "K", "L", "M",
     "N", "O", "P", "Q", "R", "S", "T", "U", "V", "W", "X", "Y", "Z"}
Digits == {"0", "1", "2", "3", "4", "5", "6", "7", "8", "9"}
SpecialChars == {"@", "$", "!", "%", "*", "?", "&"}
WhiteSpace == {" ", "\t", "\n"}

Range(s) == {s[i] : i \in 1..Len(s)}

(***************************************************************************)
(* Password utilities.                                                     *)
(***************************************************************************)
\* bcrypt's one-way digest of a password under a salt, as an opaque value.
BcryptDigest(password, salt) == <<"digest", salt, password>>

\* bcrypt.hash(password, 12): "$2a$12$" followed by the salt and the digest.
hashPassword(password, salt) ==
    <<"$2a$", saltRounds, salt, BcryptDigest(password, salt)>>

\* bcrypt.compare: false for a value that is no bcrypt hash.
verifyPassword(password, hashedPassword) ==
    /\ Len(hashedPassword) = 4
    /\ hashedPassword[1] = "$2a$"
    /\ hashedPassword[4] = BcryptDigest(password, hashedPassword[3])

\* /^[^\s@]+@[^\s@]+\.[^\s@]+$/
validateEmail(email) ==
    \E at \in 1..Len(email) :
        /\ email[at] = "@"
        /\ at > 1
        /\ \A i \in 1..Len(email) :
              /\ email[i] \notin WhiteSpace
              /\ (i # at => email[i] # "@")
        /\ \E dot \in (at + 2)..(Len(email) - 1) : email[dot] = "."

RECURSIVE join(_, _)
join(strings, separator) ==
    IF strings = <<>> THEN ""
    ELSE IF Len(strings) = 1 THEN strings[1]
    ELSE strings[1] \o separator \o join(Tail(strings), separator)

\* A faulty variant: only the first violated rule is reported.
validatePasswordFirstOnly(password) ==
    LET errors ==
            IF Len(password) < MinPasswordLength
            THEN <<"Password must be at least 8 characters long">>
            ELSE IF Range(password) \cap LowerCase = {}
            THEN <<"Password must contain at least one lowercase letter">>
            ELSE IF Range(password) \cap UpperCase = {}
            THEN <<"Password must contain at least one uppercase letter">>
            ELSE IF Range(password) \cap Digits = {}
            THEN <<"Password must contain at least one number">>
            ELSE IF Range(password) \cap SpecialChars = {}
            THEN <<"Password must contain at least one special character (@$!%*?&)">>
            ELSE <<>>
    IN  [valid |-> errors = <<>>, errors |-> errors]

validatePassword(password) ==
    LET e1 == IF Len(password) < MinPasswordLength
              THEN <<"Password must be at least 8 characters long">> ELSE <<>>
        e2 == IF Range(password) \cap LowerCase = {}
              THEN <<"Password must contain at least one lowercase letter">> ELSE <<>>
        e3 == IF Range(password) \cap UpperCase = {}
              THEN <<"Password must contain at least one uppercase letter">> ELSE <<>>
        e4 == IF Range(password) \cap Digits = {}
              THEN <<"Password must contain at least one number">> ELSE <<>>
        e5 == IF Range(password) \cap SpecialChars = {}
              THEN <<"Password must contain at least one special character (@$!%*?&)">>
              ELSE <<>>
        errors == e1 \o e2 \o e3 \o e4 \o e5
    IN  [valid |-> errors = <<>>, errors |-> errors]

(***************************************************************************)
(* JWT utilities.  A compact HS256 token is its claims and the HMAC of     *)
(* them under a key; the HMAC is an opaque value that only the same key    *)
(* and the same claims reproduce.                                          *)
(***************************************************************************)
\* jose's epoch(date): whole seconds.
epoch(ms) == ms \div MsPerSecond

HS256(key, claims) == [key |-> key, over |-> claims]

\* new SignJWT(payload).setProtectedHeader().setIssuedAt().setExpirationTime('24h').sign(JWT_SECRET)
signToken(payload, now) ==
    LET claims == [userId |-> payload.userId, email |-> payload.email,
                   role |-> payload.role,
                   iat |-> epoch(now), exp |-> epoch(now) + TokenTtlSeconds]
    IN  [parts |-> 3, claims |-> claims, signature |-> HS256(JWT_SECRET, claims)]

\* A faulty variant: the expiry is looked at before the signature.
VerifyOutcomeExpiryFirst(token, now) ==
    IF token.parts # 3 THEN "Malformed"
    ELSE IF token.claims.exp <= epoch(now) THEN "Expired"
    ELSE IF token.signature # HS256(JWT_SECRET, token.claims) THEN "BadSignature"
    ELSE "ok"

\* The verification failures jwtVerify throws, in the order it checks them,
\* or "ok".
VerifyOutcome(token, now) ==
    IF token.parts # 3 THEN "Malformed"
    ELSE IF token.signature # HS256(JWT_SECRET, token.claims) THEN "BadSignature"
    ELSE IF token.claims.exp <= epoch(now) THEN "Expired"
    ELSE "ok"

\* A faulty variant: the signature is not checked.
verifyTokenUnsigned(token, now) ==
    IF token.parts = 3 /\ token.claims.exp > epoch(now)
    THEN [isNull |-> FALSE, payload |-> token.claims]
    ELSE [isNull |-> TRUE]

\* A faulty variant: the expiry is not checked.
verifyTokenNoExpiry(token, now) ==
    IF token.parts = 3 /\ token.signature = HS256(JWT_SECRET, token.claims)
    THEN [isNull |-> FALSE, payload |-> token.claims]
    ELSE [isNull |-> TRUE]

\* A faulty variant: a token that a logout has discarded is refused.
verifyTokenRevoked(token, now) ==
    IF VerifyOutcome(token, now) = "ok" /\ token \notin loggedOut
    THEN [isNull |-> FALSE, payload |-> token.claims]
    ELSE [isNull |-> TRUE]

\* jwtVerify(token, JWT_SECRET): the payload, or null when it throws.
verifyToken(token, now) ==
    IF VerifyOutcome(token, now) = "ok"
    THEN [isNull |-> FALSE, payload |-> token.claims]
    ELSE [isNull |-> TRUE]

(***************************************************************************)
(* Identifiers: a template literal is the tuple of its parts.              *)
(***************************************************************************)
generateSessionId(now, random) == <<"session", now, random>>
generateUserId(now, random) == <<"user", now, random>>
AdminId == <<"1">>
DemoId == <<"2">>
UnknownId == <<"0">>

(***************************************************************************)
(* A JavaScript Map: its entries in insertion order.                       *)
(***************************************************************************)
MapKeys(m) == {m[i].key : i \in 1..Len(m)}
MapHas(m, k) == k \in MapKeys(m)
MapGet(m, k) == m[CHOOSE i \in 1..Len(m) : m[i].key = k].value
MapValues(m) == [i \in 1..Len(m) |-> m[i].value]
\* set: an existing key keeps its place, a new key goes last.
MapSet(m, k, v) ==
    IF MapHas(m, k)
    THEN [i \in 1..Len(m) |-> IF m[i].key = k THEN [key |-> k, value |-> v] ELSE m[i]]
    ELSE Append(m, [key |-> k, value |-> v])
MapDelete(m, k) == SelectSeq(m, LAMBDA e : e.key # k)

UpperSeq ==
    <<"A", "B", "C", "D", "E", "F", "G", "H", "I", "J", "K", "L", "M",
      "N", "O", "P", "Q", "R", "S", "T", "U", "V", "W", "X", "Y", "Z">>
LowerSeq ==
    <<"a", "b", "c", "d", "e", "f", "g", "h", "i", "j", "k", "l", "m",
      "n", "o", "p", "q", "r", "s", "t", "u", "v", "w", "x", "y", "z">>
\* String.prototype.toLowerCase
toLowerCase(s) ==
    [i \in 1..Len(s) |->
        IF s[i] \in UpperCase
        THEN LowerSeq[CHOOSE k \in 1..Len(UpperSeq) : UpperSeq[k] = s[i]]
        ELSE s[i]]

\* A faulty variant: emails are compared without regard to letter case.
FindIndexByEmailIgnoringCase(m, email) ==
    LET hits == {i \in 1..Len(m) : toLowerCase(m[i].value.email) = toLowerCase(email)}
    IN  IF hits = {} THEN 0 ELSE CHOOSE i \in hits : \A j \in hits : i <= j

\* Array.prototype.find: the first element that satisfies the test.
FindIndexByEmail(m, email) ==
    LET hits == {i \in 1..Len(m) : m[i].value.email = email}
    IN  IF hits = {} THEN 0 ELSE CHOOSE i \in hits : \A j \in hits : i <= j

\* A faulty variant: the record is returned with its password.
WithPassword(user) == user

\* const { password: _, ...userWithoutPassword } = user
WithoutPassword(user) == [f \in DOMAIN user \ {"password"} |-> user[f]]

\* A faulty variant: { ...updates, ...user }, the old values win.
SpreadReversed(user, updates) ==
    [f \in DOMAIN user \cup DOMAIN updates |->
        IF f \in DOMAIN user THEN user[f] ELSE updates[f]]

\* { ...user, ...updates }
Spread(user, updates) ==
    [f \in DOMAIN user \cup DOMAIN updates |->
        IF f \in DOMAIN updates THEN updates[f] ELSE user[f]]

(***************************************************************************)
(* Records.                                                                *)
(***************************************************************************)
DefaultPreferences ==
    [email |-> TRUE, sms |-> FALSE, billing |-> TRUE, maintenance |-> FALSE,
     security |-> TRUE]

AdminUser(now, salt) ==
    [id |-> AdminId, email |-> AdminEmail, name |-> "Admin User", role |-> "admin",
     createdAt |-> now, updatedAt |-> now,
     password |-> hashPassword(AdminPassword, salt),
     profile |-> [company |-> "CloudPro Demo", timezone |-> "UTC",
                  notificationPreferences |->
                      [DefaultPreferences EXCEPT !.maintenance = TRUE]]]

DemoUser(now, salt) ==
    [id |-> DemoId, email |-> DemoEmail, name |-> "Demo User", role |-> "user",
     createdAt |-> now, updatedAt |-> now,
     password |-> hashPassword(DemoPassword, salt),
     profile |-> [company |-> "Demo Company", timezone |-> "UTC",
                  notificationPreferences |-> DefaultPreferences]]

NewUser(userId, email, name, hashedPassword, now) ==
    [id |-> userId, email |-> email, name |-> name, role |-> "user",
     createdAt |-> now, updatedAt |-> now, password |-> hashedPassword,
     profile |-> [notificationPreferences |-> DefaultPreferences]]

TokenPayloadOf(user) == [userId |-> user.id, email |-> user.email, role |-> user.role]

Failure(error) == [success |-> FALSE, error |-> error]
Success(user, token) == [success |-> TRUE, user |-> user, token |-> token]
Null == [isNull |-> TRUE]
Some(user) == [isNull |-> FALSE, user |-> user]

\* A faulty variant: an unknown email is reported as such.
UnknownEmailFailureNamed == Failure("User not found")

\* The failure of a login whose email no record carries.
UnknownEmailFailure == Failure("Invalid credentials")
\* The failure of a login whose password does not verify.
WrongPasswordFailure == Failure("Invalid credentials")

(***************************************************************************)
(* The calls.  A call takes the first unused slot and is in flight until   *)
(* it has returned; its record holds its arguments, its locals and, once   *)
(* returned, its result.  `during` is the set of calls that were in flight *)
(* when it was made.                                                       *)
(***************************************************************************)
Idle == [op |-> "none", pc |-> "idle"]
NoCall == [op |-> "none"]
IsNextCall(c) == calls[c].pc = "idle" /\ \A d \in 1..(c - 1) : calls[d].pc # "idle"
InFlight == {d \in Calls : calls[d].pc \notin {"idle", "done"}}
Returned(c) == calls[c].pc = "done"
Returns(call, result) == [call EXCEPT !.pc = "done"] @@ [result |-> result]
Awaits(call, pc) == [call EXCEPT !.pc = pc]

Init ==
    /\ users = <<>>
    /\ sessions = <<>>
    /\ clock = 0
    \* initializeUsers() has found users.size === 0 and awaits the first hash
    /\ seeding = "hashAdmin"
    /\ calls = [c \in Calls |-> Idle]
    /\ last = NoCall
    /\ cookie = {}
    /\ loggedOut = {}
    /\ currentUser = Null

(***************************************************************************)
(* initializeUsers, from its first await on.                               *)
(***************************************************************************)
initializeUsersAdmin ==
    /\ seeding = "hashAdmin"
    /\ \E salt \in Salts :
          users' = MapSet(users, AdminId, AdminUser(clock, salt))
    /\ seeding' = "hashDemo"
    /\ last' = NoCall
    /\ UNCHANGED <<sessions, clock, calls, cookie, loggedOut, currentUser>>

initializeUsersDemo ==
    /\ seeding = "hashDemo"
    /\ \E salt \in Salts :
          users' = MapSet(users, DemoId, DemoUser(clock, salt))
    /\ seeding' = "done"
    /\ last' = NoCall
    /\ UNCHANGED <<sessions, clock, calls, cookie, loggedOut, currentUser>>

(***************************************************************************)
(* registerUser.                                                           *)
(***************************************************************************)
\* A faulty variant: the duplicate check comes before the validation.
registerUserDuplicateFirst(c, email, password, name) ==
    /\ IsNextCall(c)
    /\ LET call == [op |-> "registerUser", pc |-> "start", during |-> InFlight,
                    email |-> email, password |-> password, name |-> name]
           passwordValidation == validatePassword(password)
       IN  calls' = [calls EXCEPT ![c] =
               IF FindIndexByEmail(users, email) # 0
               THEN Returns(call, Failure("User already exists"))
               ELSE IF ~validateEmail(email)
               THEN Returns(call, Failure("Invalid email format"))
               ELSE IF ~passwordValidation.valid
               THEN Returns(call, Failure(join(passwordValidation.errors, ", ")))
               ELSE Awaits(call, "hashPassword")]
    /\ last' = NoCall
    /\ UNCHANGED <<users, sessions, clock, seeding, cookie, loggedOut, currentUser>>

registerUser(c, email, password, name) ==
    /\ IsNextCall(c)
    /\ LET call == [op |-> "registerUser", pc |-> "start", during |-> InFlight,
                    email |-> email, password |-> password, name |-> name]
           passwordValidation == validatePassword(password)
       IN  calls' = [calls EXCEPT ![c] =
               IF ~validateEmail(email)
               THEN Returns(call, Failure("Invalid email format"))
               ELSE IF ~passwordValidation.valid
               THEN Returns(call, Failure(join(passwordValidation.errors, ", ")))
               ELSE IF FindIndexByEmail(users, email) # 0
               THEN Returns(call, Failure("User already exists"))
               ELSE Awaits(call, "hashPassword")]
    /\ last' = NoCall
    /\ UNCHANGED <<users, sessions, clock, seeding, cookie, loggedOut, currentUser>>

\* hashPassword has resolved: the record is stored and the token signed.
registerUserHashed(c, salt, random) ==
    /\ calls[c].op = "registerUser" /\ calls[c].pc = "hashPassword"
    /\ LET hashedPassword == hashPassword(calls[c].password, salt)
           userId == generateUserId(clock, random)
           newUser == NewUser(userId, calls[c].email, calls[c].name, hashedPassword, clock)
           token == signToken(TokenPayloadOf(newUser), clock)
       IN  /\ users' = MapSet(users, userId, newUser)
           /\ calls' = [calls EXCEPT ![c] =
                  Awaits(calls[c], "signToken")
                      @@ [newUser |-> newUser, token |-> token, signedAt |-> clock]]
    /\ last' = NoCall
    /\ UNCHANGED <<sessions, clock, seeding, cookie, loggedOut, currentUser>>

\* A faulty variant: a registration records a session as a login does.
registerUserWithSession(c) ==
    /\ calls[c].op = "registerUser" /\ calls[c].pc = "signToken"
    /\ \E random \in Rands :
          sessions' = MapSet(sessions, generateSessionId(clock, random),
                             [userId |-> calls[c].newUser.id,
                              expiresAt |-> clock + SessionTtlMs])
    /\ calls' = [calls EXCEPT ![c] =
           Returns(calls[c], Success(WithoutPassword(calls[c].newUser), calls[c].token))]
    /\ last' = NoCall
    /\ UNCHANGED <<users, clock, seeding, cookie, loggedOut, currentUser>>

\* signToken has resolved.
registerUserSigned(c) ==
    /\ calls[c].op = "registerUser" /\ calls[c].pc = "signToken"
    /\ calls' = [calls EXCEPT ![c] =
           Returns(calls[c], Success(WithoutPassword(calls[c].newUser), calls[c].token))]
    /\ last' = NoCall
    /\ UNCHANGED <<users, sessions, clock, seeding, cookie, loggedOut, currentUser>>

(***************************************************************************)
(* authenticateUser.                                                       *)
(***************************************************************************)
authenticateUser(c, email, password) ==
    /\ IsNextCall(c)
    /\ LET call == [op |-> "authenticateUser", pc |-> "start", during |-> InFlight,
                    email |-> email, password |-> password]
           found == FindIndexByEmail(users, email)
       IN  calls' = [calls EXCEPT ![c] =
               IF found = 0
               THEN Returns(call, UnknownEmailFailure)
               \* foundUser is the object now in the Map; updateUser replaces
               \* the Map's object and never writes into this one
               ELSE Awaits(call, "verifyPassword") @@ [foundUser |-> users[found].value]]
    /\ last' = NoCall
    /\ UNCHANGED <<users, sessions, clock, seeding, cookie, loggedOut, currentUser>>

\* verifyPassword has resolved.
authenticateUserVerified(c) ==
    /\ calls[c].op = "authenticateUser" /\ calls[c].pc = "verifyPassword"
    /\ LET foundUser == calls[c].foundUser
           isPasswordValid == verifyPassword(calls[c].password, foundUser.password)
           token == signToken(TokenPayloadOf(foundUser), clock)
       IN  calls' = [calls EXCEPT ![c] =
               IF ~isPasswordValid
               THEN Returns(calls[c], WrongPasswordFailure)
               ELSE Awaits(calls[c], "signToken")
                        @@ [token |-> token, signedAt |-> clock]]
    /\ last' = NoCall
    /\ UNCHANGED <<users, sessions, clock, seeding, cookie, loggedOut, currentUser>>

\* A faulty variant: the login writes its copy of the record back.
authenticateUserWritingBack(c, random) ==
    /\ calls[c].op = "authenticateUser" /\ calls[c].pc = "signToken"
    /\ LET foundUser == calls[c].foundUser
           sessionId == generateSessionId(clock, random)
           expiresAt == clock + SessionTtlMs
       IN  /\ sessions' = MapSet(sessions, sessionId,
                                 [userId |-> foundUser.id, expiresAt |-> expiresAt])
           /\ users' = MapSet(users, foundUser.id, foundUser)
           /\ calls' = [calls EXCEPT ![c] =
                  Returns(calls[c] @@ [sessionId |-> sessionId],
                          Success(WithoutPassword(foundUser), calls[c].token))]
    /\ last' = NoCall
    /\ UNCHANGED <<clock, seeding, cookie, loggedOut, currentUser>>

\* signToken has resolved: the session is recorded.
authenticateUserSigned(c, random) ==
    /\ calls[c].op = "authenticateUser" /\ calls[c].pc = "signToken"
    /\ LET foundUser == calls[c].foundUser
           sessionId == generateSessionId(clock, random)
           expiresAt == clock + SessionTtlMs
       IN  /\ sessions' = MapSet(sessions, sessionId,
                                 [userId |-> foundUser.id, expiresAt |-> expiresAt])
           /\ calls' = [calls EXCEPT ![c] =
                  Returns(calls[c] @@ [sessionId |-> sessionId],
                          Success(WithoutPassword(foundUser), calls[c].token))]
    /\ last' = NoCall
    /\ UNCHANGED <<users, clock, seeding, cookie, loggedOut, currentUser>>

(***************************************************************************)
(* getUserById, getUserByToken, updateUser: no await before their last     *)
(* access to the Maps, so each is one atomic segment.  `last` holds the    *)
(* call of getUserById or getUserByToken that has just returned, until the *)
(* next step.                                                              *)
(***************************************************************************)
UserById(userId) ==
    IF MapHas(users, userId) THEN Some(WithoutPassword(MapGet(users, userId))) ELSE Null

\* A call of validatePassword on its own: `last` holds the call that has
\* just returned.
validatePasswordCall(password) ==
    /\ last' = [op |-> "validatePassword", password |-> password,
                result |-> validatePassword(password)]
    /\ UNCHANGED <<users, sessions, clock, seeding, calls, cookie, loggedOut, currentUser>>

getUserById(userId) ==
    /\ last' = [op |-> "getUserById", userId |-> userId, result |-> UserById(userId)]
    /\ UNCHANGED <<users, sessions, clock, seeding, calls, cookie, loggedOut, currentUser>>

\* A faulty variant: the read looks up the user's first stored session and
\* refuses the token when that session has expired.
UserByTokenWithSession(token) ==
    LET verified == verifyToken(token, clock)
        own == SelectSeq(sessions, LAMBDA e :
                   ~verified.isNull /\ e.value.userId = verified.payload.userId)
    IN  IF verified.isNull THEN Null
        ELSE IF own # <<>> /\ own[1].value.expiresAt < clock THEN Null
        ELSE UserById(verified.payload.userId)

\* A faulty variant: a verified token whose user the registry does not hold
\* is answered from the token's own claims.
UserByTokenTrusting(token) ==
    LET verified == verifyToken(token, clock)
    IN  IF verified.isNull THEN Null
        ELSE IF MapHas(users, verified.payload.userId)
        THEN UserById(verified.payload.userId)
        ELSE Some([id |-> verified.payload.userId, email |-> verified.payload.email,
                   role |-> verified.payload.role])

\* A faulty variant: a verified token is refused when the record no longer
\* carries the email and the role of the token's claims.
UserByTokenMatchingClaims(token) ==
    LET verified == verifyToken(token, clock)
    IN  IF verified.isNull THEN Null
        ELSE IF ~MapHas(users, verified.payload.userId) THEN Null
        ELSE IF TokenPayloadOf(MapGet(users, verified.payload.userId))
                    # [f \in {"userId", "email", "role"} |-> verified.payload[f]]
        THEN Null
        ELSE UserById(verified.payload.userId)

UserByToken(token) ==
    LET verified == verifyToken(token, clock)
    IN  IF verified.isNull THEN Null ELSE UserById(verified.payload.userId)

getUserByToken(token) ==
    /\ last' = [op |-> "getUserByToken", token |-> token, at |-> clock,
                result |-> UserByToken(token)]
    /\ UNCHANGED <<users, sessions, clock, seeding, calls, cookie, loggedOut, currentUser>>

\* A faulty variant: an update of an id the registry does not hold stores
\* the updates as a new record.
updateUserUpsert(c, userId, updates) ==
    /\ IsNextCall(c)
    /\ LET call == [op |-> "updateUser", pc |-> "start", during |-> InFlight,
                    userId |-> userId, updates |-> updates, at |-> clock]
           user == IF MapHas(users, userId) THEN MapGet(users, userId) ELSE [id |-> userId]
           updatedUser == Spread(Spread(user, updates),
                                 [id |-> userId, updatedAt |-> clock])
       IN  /\ users' = MapSet(users, userId, updatedUser)
           /\ calls' = [calls EXCEPT ![c] =
                  Returns(call, [success |-> TRUE,
                                 user |-> WithoutPassword(updatedUser)])]
    /\ last' = NoCall
    /\ UNCHANGED <<sessions, clock, seeding, cookie, loggedOut, currentUser>>

\* A faulty variant: the record is stored as it is returned, its password
\* blanked.
updateUserBlankingPassword(c, userId, updates) ==
    /\ IsNextCall(c)
    /\ LET call == [op |-> "updateUser", pc |-> "start", during |-> InFlight,
                    userId |-> userId, updates |-> updates, at |-> clock]
       IN  IF ~MapHas(users, userId)
           THEN /\ calls' = [calls EXCEPT ![c] = Returns(call, Failure("User not found"))]
                /\ UNCHANGED users
           ELSE LET user == MapGet(users, userId)
                    updatedUser == Spread(Spread(user, updates),
                                          [id |-> userId, updatedAt |-> clock])
                IN  /\ users' = MapSet(users, userId,
                                       [updatedUser EXCEPT !.password = <<>>])
                    /\ calls' = [calls EXCEPT ![c] =
                           Returns(call, [success |-> TRUE,
                                          user |-> WithoutPassword(updatedUser)])]
    /\ last' = NoCall
    /\ UNCHANGED <<sessions, clock, seeding, cookie, loggedOut, currentUser>>

updateUser(c, userId, updates) ==
    /\ IsNextCall(c)
    /\ LET call == [op |-> "updateUser", pc |-> "start", during |-> InFlight,
                    userId |-> userId, updates |-> updates, at |-> clock]
       IN  IF ~MapHas(users, userId)
           THEN /\ calls' = [calls EXCEPT ![c] = Returns(call, Failure("User not found"))]
                /\ UNCHANGED users
           ELSE LET user == MapGet(users, userId)
                    updatedUser == Spread(Spread(user, updates),
                                          [id |-> userId, updatedAt |-> clock])
                IN  /\ users' = MapSet(users, userId, updatedUser)
                    /\ calls' = [calls EXCEPT ![c] =
                           Returns(call, [success |-> TRUE,
                                          user |-> WithoutPassword(updatedUser)])]
    /\ last' = NoCall
    /\ UNCHANGED <<sessions, clock, seeding, cookie, loggedOut, currentUser>>

(***************************************************************************)
(* cleanupExpiredSessions: the loop over sessions.entries().               *)
(***************************************************************************)
RECURSIVE SweepFrom(_, _, _)
SweepFrom(entries, store, now) ==
    IF entries = <<>> THEN store
    ELSE LET entry == Head(entries)
         IN  SweepFrom(Tail(entries),
                       IF entry.value.expiresAt < now
                       THEN MapDelete(store, entry.key) ELSE store,
                       now)

\* A faulty variant: an entry that expires at this very instant is removed too.
SweepInclusive(store, now) == SelectSeq(store, LAMBDA e : ~(e.value.expiresAt <= now))

\* A faulty variant: a removal makes the loop skip the entry that follows.
RECURSIVE SweepSkippingFrom(_, _, _)
SweepSkippingFrom(entries, store, now) ==
    IF entries = <<>> THEN store
    ELSE LET entry == Head(entries)
         IN  IF entry.value.expiresAt < now
             THEN SweepSkippingFrom(IF Len(entries) > 1 THEN Tail(Tail(entries)) ELSE <<>>,
                                    MapDelete(store, entry.key), now)
             ELSE SweepSkippingFrom(Tail(entries), store, now)

SweepSkipping(store, now) == SweepSkippingFrom(store, store, now)

\* A faulty variant: expiresAt, in milliseconds, is compared with the time
\* in seconds.
SweepInSeconds(store, now) == SweepFrom(store, store, epoch(now))

Sweep(store, now) == SweepFrom(store, store, now)

\* A faulty variant: the sweep filters a copy of the store taken before the
\* newest session was inserted, and writes the copy back.
cleanupExpiredSessionsFromCopy ==
    /\ sessions' = Sweep(IF sessions = <<>> THEN sessions
                         ELSE SubSeq(sessions, 1, Len(sessions) - 1), clock)
    /\ last' = NoCall
    /\ UNCHANGED <<users, clock, seeding, calls, cookie, loggedOut, currentUser>>

cleanupExpiredSessions ==
    /\ sessions' = Sweep(sessions, clock)
    /\ last' = NoCall
    /\ UNCHANGED <<users, clock, seeding, calls, cookie, loggedOut, currentUser>>

(***************************************************************************)
(* The browser: a successful login or registration stores the token in the *)
(* cookie; logout removes it.                                              *)
(***************************************************************************)
HoldsToken(c) ==
    /\ calls[c].op \in {"registerUser", "authenticateUser"}
    /\ Returned(c)
    /\ calls[c].result.success

\* setUser(data.user); Cookies.set('token', data.token, ...)
storeToken(c) ==
    /\ HoldsToken(c)
    /\ calls[c].result.token \notin cookie \cup loggedOut
    /\ currentUser' = Some(calls[c].result.user)
    /\ cookie' = {calls[c].result.token}
    /\ last' = NoCall
    /\ UNCHANGED <<users, sessions, clock, seeding, calls, loggedOut>>

\* setUser(null); Cookies.remove('token')
logout ==
    /\ cookie # {}
    /\ currentUser' = Null
    /\ cookie' = {}
    /\ loggedOut' = loggedOut \cup cookie
    /\ last' = NoCall
    /\ UNCHANGED <<users, sessions, clock, seeding, calls>>

Tick(t) ==
    /\ t > clock
    /\ clock' = t
    /\ last' = NoCall
    /\ UNCHANGED <<users, sessions, seeding, calls, cookie, loggedOut, currentUser>>

(***************************************************************************)
(* The protected route handlers.  A request is its Authorization header    *)
(* and its Cookie header; a header is absent, or the scheme up to the      *)
(* first space and the rest, or the key=value pairs between the ';'.       *)
(* The handler runs up to the call of the external client in one step:     *)
(* its awaits before it (getUserByToken, request.json()) read the registry *)
(* once.  `external` is the method of the external client that the         *)
(* handler has called.                                                     *)
(***************************************************************************)
NoHeader == [isNull |-> TRUE]
\* the empty string
Empty == [parts |-> 0]
Authorization(scheme, rest) == [isNull |-> FALSE, scheme |-> scheme, rest |-> rest]
Cookie(pairs) == [isNull |-> FALSE, pairs |-> pairs]

\* cookies.token after the reduce: the value of the last pair of that key
CookieValue(pairs, key) ==
    LET named == SelectSeq(pairs, LAMBDA pair : pair.key = key)
    IN  IF named = <<>> THEN Empty ELSE named[Len(named)].value

extractTokenFromRequest(request) ==
    IF ~request.authorization.isNull /\ request.authorization.scheme = "Bearer "
    THEN [isNull |-> FALSE, token |-> request.authorization.rest]
    ELSE IF ~request.cookie.isNull
    THEN IF CookieValue(request.cookie.pairs, "token") = Empty
         THEN Null
         ELSE [isNull |-> FALSE, token |-> CookieValue(request.cookie.pairs, "token")]
    ELSE Null

\* const user = token ? await getUserByToken(token) : null
Authenticate(request) ==
    LET token == extractTokenFromRequest(request)
    IN  IF token.isNull \/ token.token = Empty THEN Null ELSE UserByToken(token.token)

Response(status, success) == [status |-> status, success |-> success]

Handler(route, request) ==
    [op |-> route, pc |-> "start", during |-> InFlight, request |-> request,
     at |-> clock, external |-> "none"]

Calling(call, method) == [Awaits(call, "external") EXCEPT !.external = method]

authMeGET(c, request) ==
    /\ IsNextCall(c)
    /\ LET call == Handler("GET /api/auth/me", request)
           token == extractTokenFromRequest(request)
       IN  calls' = [calls EXCEPT ![c] =
               IF token.isNull \/ token.token = Empty
               THEN Returns(call, Response(401, FALSE))
               ELSE IF UserByToken(token.token).isNull
               THEN Returns(call, Response(401, FALSE))
               ELSE Returns(call, Response(200, TRUE)
                                      @@ [user |-> UserByToken(token.token).user])]
    /\ last' = NoCall
    /\ UNCHANGED <<users, sessions, clock, seeding, cookie, loggedOut, currentUser>>

linodeInstancesGET(c, request) ==
    /\ IsNextCall(c)
    /\ LET call == Handler("GET /api/linode/instances", request)
       IN  calls' = [calls EXCEPT ![c] =
               IF Authenticate(request).isNull
               THEN Returns(call, Response(401, FALSE))
               ELSE Calling(call, "linodeApi.getInstances")]
    /\ last' = NoCall
    /\ UNCHANGED <<users, sessions, clock, seeding, cookie, loggedOut, currentUser>>

\* body: the JSON of the request is "invalid" (request.json() throws),
\* "incomplete" (a required field is missing) or "complete".
linodeInstancesPOST(c, request, body) ==
    /\ IsNextCall(c)
    /\ LET call == Handler("POST /api/linode/instances", request) @@ [body |-> body]
       IN  calls' = [calls EXCEPT ![c] =
               IF Authenticate(request).isNull
               THEN Returns(call, Response(401, FALSE))
               ELSE IF body = "invalid"
               THEN Returns(call, Response(500, FALSE))
               ELSE IF body = "incomplete"
               THEN Returns(call, Response(400, FALSE))
               ELSE Calling(call, "linodeApi.createInstance")]
    /\ last' = NoCall
    /\ UNCHANGED <<users, sessions, clock, seeding, cookie, loggedOut, currentUser>>

\* A faulty variant: the handler calls the Linode client whoever asks.
linodeTypesGETUnchecked(c, request) ==
    /\ IsNextCall(c)
    /\ LET call == Handler("GET /api/linode/types", request)
       IN  calls' = [calls EXCEPT ![c] = Calling(call, "linodeApi.getTypes")]
    /\ last' = NoCall
    /\ UNCHANGED <<users, sessions, clock, seeding, cookie, loggedOut, currentUser>>

linodeTypesGET(c, request) ==
    /\ IsNextCall(c)
    /\ LET call == Handler("GET /api/linode/types", request)
       IN  calls' = [calls EXCEPT ![c] =
               IF Authenticate(request).isNull
               THEN Returns(call, Response(401, FALSE))
               ELSE Calling(call, "linodeApi.getTypes")]
    /\ last' = NoCall
    /\ UNCHANGED <<users, sessions, clock, seeding, cookie, loggedOut, currentUser>>

paystackBillingGET(c, request) ==
    /\ IsNextCall(c)
    /\ LET call == Handler("GET /api/paystack/billing", request)
       IN  calls' = [calls EXCEPT ![c] =
               IF Authenticate(request).isNull
               THEN Returns(call, Response(401, FALSE))
               ELSE Calling(call, "paystackApi.getBillingOverview")]
    /\ last' = NoCall
    /\ UNCHANGED <<users, sessions, clock, seeding, cookie, loggedOut, currentUser>>

\* The external client has answered: outcome is "success", "failure"
\* (result.success is false) or "throws".
externalAnswers(c, outcome) ==
    /\ calls[c].pc = "external"
    /\ calls' = [calls EXCEPT ![c] =
           IF calls[c].op = "GET /api/paystack/billing"
           \* the demo data, whatever Paystack answered
           THEN Returns(calls[c], Response(200, TRUE))
           ELSE IF outcome = "success"
           THEN Returns(calls[c], Response(200, TRUE))
           ELSE IF outcome = "failure" /\ calls[c].op = "POST /api/linode/instances"
           THEN Returns(calls[c], Response(400, FALSE))
           ELSE Returns(calls[c], Response(500, FALSE))]
    /\ last' = NoCall
    /\ UNCHANGED <<users, sessions, clock, seeding, cookie, loggedOut, currentUser>>

(***************************************************************************)
(* The AuthProvider of the browser.  A call of login, register or          *)
(* checkAuthStatus is in flight from its fetch until the provider has      *)
(* received the response; the request of login is served by                *)
(* authenticateUser, that of register by registerUser, that of             *)
(* checkAuthStatus by the handler of GET /api/auth/me.  arrives is false   *)
(* when the fetch fails.                                                   *)
(***************************************************************************)
Received(c) == "received" \in DOMAIN calls[c]
Receive(call) == call @@ [received |-> TRUE]

\* checkAuthStatus finds a token in the cookie and fetches /api/auth/me; the
\* browser sends the cookie with it.
checkAuthStatus(c) ==
    \E token \in cookie :
        authMeGET(c, [authorization |-> Authorization("Bearer ", token),
                      cookie |-> Cookie(<<[key |-> "token", value |-> token]>>)])

checkAuthStatusResponds(c, arrives) ==
    /\ calls[c].op = "GET /api/auth/me" /\ Returned(c) /\ ~Received(c)
    /\ IF arrives /\ calls[c].result.status = 200
       THEN currentUser' = Some(calls[c].result.user) /\ UNCHANGED cookie
       ELSE cookie' = {} /\ UNCHANGED currentUser
    /\ calls' = [calls EXCEPT ![c] = Receive(@)]
    /\ last' = NoCall
    /\ UNCHANGED <<users, sessions, clock, seeding, loggedOut>>

login(c, email, password) == authenticateUser(c, email, password)

loginResponds(c, arrives) ==
    /\ calls[c].op = "authenticateUser" /\ Returned(c) /\ ~Received(c)
    /\ IF arrives /\ calls[c].result.success
       THEN /\ currentUser' = Some(calls[c].result.user)
            /\ cookie' = {calls[c].result.token}
       ELSE UNCHANGED <<currentUser, cookie>>
    /\ calls' = [calls EXCEPT ![c] = Receive(@)]
    /\ last' = NoCall
    /\ UNCHANGED <<users, sessions, clock, seeding, loggedOut>>

register(c, email, password, name) == registerUser(c, email, password, name)

registerResponds(c, arrives) ==
    /\ calls[c].op = "registerUser" /\ Returned(c) /\ ~Received(c)
    /\ IF arrives /\ calls[c].result.success
       THEN /\ currentUser' = Some(calls[c].result.user)
            /\ cookie' = {calls[c].result.token}
       ELSE UNCHANGED <<currentUser, cookie>>
    /\ calls' = [calls EXCEPT ![c] = Receive(@)]
    /\ last' = NoCall
    /\ UNCHANGED <<users, sessions, clock, seeding, loggedOut>>

\* logout(), recorded among the calls: it returns at once.
logoutCalled(c) ==
    /\ IsNextCall(c)
    /\ calls' = [calls EXCEPT ![c] = [op |-> "logout", pc |-> "done", during |-> InFlight]]
    /\ currentUser' = Null
    /\ cookie' = {}
    /\ loggedOut' = loggedOut \cup cookie
    /\ last' = NoCall
    /\ UNCHANGED <<users, sessions, clock, seeding>>

(***************************************************************************)
(* Tokens a caller can present.                                            *)
(***************************************************************************)
Issued == {calls[c].token : c \in {d \in Calls : "token" \in DOMAIN calls[d]}}

Resigned(claims, key) == [parts |-> 3, claims |-> claims, signature |-> HS256(key, claims)]

\* A token with its claims or its signature altered.
Tampered(token) ==
    { [token EXCEPT !.claims.role = "admin"],
      [token EXCEPT !.claims.userId = AdminId],
      [token EXCEPT !.claims.exp = @ + TokenTtlSeconds],
      Resigned([token.claims EXCEPT !.exp = @ + TokenTtlSeconds], AttackerKey) } \ {token}

Garbage == [parts |-> 1]

Presentable == Issued \cup UNION {Tampered(token) : token \in Issued} \cup {Garbage}

\* Tokens signed with the server's secret for a user this registry does not
\* hold: the registry is in memory and starts anew with the process.
Foreign ==
    {signToken([userId |-> UnknownId, email |-> RealUserEmail, role |-> "user"], 0)}

(***************************************************************************)
(* The inputs of the calls.                                                *)
(***************************************************************************)
RegisterInputs ==
    { <<RealUserEmail, StrongPass>>, <<RealUserEmail, OtherPass>>, <<BadEmail, WeakPass>> }
LoginInputs ==
    { <<RealUserEmail, StrongPass>>, <<AdminEmail, AdminPassword>>, <<AdminEmail, StrongPass>> }
UpdateInputs == { [id |-> UnknownId, email |-> RealUserEmail, role |-> "admin"] }
KnownIds == MapKeys(users) \cup {UnknownId}

(***************************************************************************)
(* The core from module load on: every operation, over the first second.   *)
(***************************************************************************)
Seeding == initializeUsersAdmin \/ initializeUsersDemo

Register(C, inputs) ==
    \/ \E c \in C, input \in inputs, name \in RegisterNames :
          registerUser(c, input[1], input[2], name)
    \/ \E c \in C, salt \in Salts, random \in Rands : registerUserHashed(c, salt, random)
    \/ \E c \in C : registerUserSigned(c)

Login(C, inputs) ==
    \/ \E c \in C, input \in inputs : authenticateUser(c, input[1], input[2])
    \/ \E c \in C : authenticateUserVerified(c)
    \/ \E c \in C, random \in Rands : authenticateUserSigned(c, random)

Next ==
    \/ Seeding
    \/ Register(1..MaxCalls, RegisterInputs)
    \/ Login(1..MaxCalls, LoginInputs)
    \/ \E c \in 1..MaxCalls, userId \in KnownIds, updates \in UpdateInputs :
          updateUser(c, userId, updates)
    \/ \E userId \in KnownIds : getUserById(userId)
    \/ \E token \in Issued \cup {Garbage} : getUserByToken(token)
    \/ cleanupExpiredSessions
    \/ \E t \in EarlyInstants : Tick(t)

Spec == Init /\ [][Next]_vars

(***************************************************************************)
(* Racing registrations followed by a login.                               *)
(***************************************************************************)
RaceInputs == { <<RealUserEmail, StrongPass>>, <<RealUserEmail, OtherPass>> }

NextRace ==
    \/ Seeding
    \/ Register(1..RaceCalls, RaceInputs)
    \/ Login(1..RaceCalls, RaceInputs)

SpecRace == Init /\ [][NextRace]_vars

(***************************************************************************)
(* Registrations with invalid and valid inputs.                            *)
(***************************************************************************)
ValidateInputs ==
    { <<BadEmail, StrongPass>>, <<BadEmail, WeakPass>>, <<RealUserEmail, WeakPass>>,
      <<RealUserEmail, NoSpecialPass>>, <<AdminEmail, WeakPass>>,
      <<RealUserEmail, StrongPass>> }

NextValidate ==
    \/ Seeding
    \/ Register(1..MaxCalls, ValidateInputs)

SpecValidate == Init /\ [][NextValidate]_vars

(***************************************************************************)
(* validatePassword on its own, over passwords of every length up to       *)
(* MaxPasswordLen that hold characters of any choice of the four classes,   *)
(* filled up with a character of none of them.                             *)
(***************************************************************************)
ClassSamples == <<"a", "A", "1", "!">>

PasswordOf(classes, n) ==
    LET picks == SelectSeq(ClassSamples, LAMBDA ch : ch \in classes)
    IN  [i \in 1..n |-> IF i <= Len(picks) THEN picks[i] ELSE "-"]

Passwords ==
    {PasswordOf(classes, n) : classes \in SUBSET Range(ClassSamples), n \in 0..MaxPasswordLen}
        \cup {StrongPass, WeakPass, NoSpecialPass, AdminPassword}

NextPolicy == \E password \in Passwords : validatePasswordCall(password)

SpecPolicy == Init /\ [][NextPolicy]_vars

(***************************************************************************)
(* Updates and reads of one record while a login and a registration are    *)
(* suspended at their awaits.                                              *)
(***************************************************************************)
MergeInputs == { [name |-> "Renamed"], [role |-> "user"] }

NextMerge ==
    \/ Seeding
    \/ Register(1..TokenCalls, {<<RealUserEmail, StrongPass>>})
    \/ Login(1..RaceCalls, {<<AdminEmail, AdminPassword>>})
    \/ \E c \in 1..RaceCalls, userId \in KnownIds, updates \in MergeInputs :
          updateUser(c, userId, updates)
    \/ \E userId \in KnownIds : getUserById(userId)
    \/ \E t \in EarlyInstants : Tick(t)

SpecMerge == Init /\ [][NextMerge]_vars

\* Registrations with emails the registry holds, exactly or up to case.
DuplicateInputs ==
    { <<AdminEmail, StrongPass>>, <<UpperAdminEmail, StrongPass>>,
      <<RealUserEmail, StrongPass>> }

NextDuplicate ==
    \/ Seeding
    \/ Register(1..MaxCalls, DuplicateInputs)

SpecDuplicate == Init /\ [][NextDuplicate]_vars

(***************************************************************************)
(* Over the 24 hours of a token and of a session.  The two hashes of       *)
(* start-up resolve within the first second.                               *)
(***************************************************************************)
Elapse(t) == (seeding = "done" \/ t \in EarlyInstants) /\ Tick(t)

\* A token from its issue to its expiry: the presented tokens, the browser.
NextToken ==
    \/ Seeding
    \/ Register(1..TokenCalls, {<<RealUserEmail, StrongPass>>})
    \/ Login(1..TokenCalls, {<<AdminEmail, AdminPassword>>})
    \/ \E token \in Presentable : getUserByToken(token)
    \/ \E c \in 1..TokenCalls : storeToken(c)
    \/ logout
    \/ \E t \in Instants : Elapse(t)

SpecToken == Init /\ [][NextToken]_vars

\* The same, with tokens of users the registry does not hold.
NextReject ==
    \/ NextToken
    \/ \E token \in Foreign : getUserByToken(token)

SpecReject == Init /\ [][NextReject]_vars

\* Sessions from login to the sweep.
NextSweep ==
    \/ Seeding
    \/ Login(1..MaxCalls, {<<AdminEmail, AdminPassword>>})
    \/ cleanupExpiredSessions
    \/ \E t \in Instants : Elapse(t)

SpecSweep == Init /\ [][NextSweep]_vars

(***************************************************************************)
(* The sweep as the hourly timer fires it, for ever.  Logins are made in   *)
(* the first second and their awaits resolve before the clock moves past   *)
(* it; the clock then runs to the horizon, past the expiry of every        *)
(* session.  The timer keeps firing, time keeps advancing and every await  *)
(* resolves: weak fairness on each.                                        *)
(***************************************************************************)
Horizon == SessionTtlMs + 2 * MsPerSecond

LiveInstants == Instants \cup {Horizon}

LoginCalled ==
    \E c \in 1..MaxCalls :
        clock \in EarlyInstants /\ authenticateUser(c, AdminEmail, AdminPassword)

LoginResolves ==
    \/ \E c \in 1..MaxCalls : authenticateUserVerified(c)
    \/ \E c \in 1..MaxCalls, random \in Rands : authenticateUserSigned(c, random)

TimePasses ==
    \E t \in LiveInstants :
        (t \in EarlyInstants \/ (seeding = "done" /\ InFlight = {})) /\ Tick(t)

NextLive ==
    \/ Seeding
    \/ LoginCalled
    \/ LoginResolves
    \/ cleanupExpiredSessions
    \/ TimePasses

SpecLive ==
    /\ Init /\ [][NextLive]_vars
    /\ WF_vars(Seeding)
    /\ WF_vars(LoginResolves)
    /\ WF_vars(TimePasses)
    /\ WF_vars(cleanupExpiredSessions)

\* Sessions, the sweep, and reads by token between them.
NextDelay ==
    \/ NextSweep
    \/ \E token \in Issued \cup {Garbage} : getUserByToken(token)

SpecDelay == Init /\ [][NextDelay]_vars

(***************************************************************************)
(* Requests to the protected routes, with the tokens of a login, altered   *)
(* tokens and no token, in either header, over the 24 hours of a token.    *)
(***************************************************************************)
Requests ==
    {[authorization |-> NoHeader, cookie |-> NoHeader]}
        \cup {[authorization |-> Authorization("Bearer ", token), cookie |-> NoHeader] :
                  token \in Presentable \cup {Empty}}
        \cup {[authorization |-> Authorization("Basic ", token), cookie |-> NoHeader] :
                  token \in Issued}
        \cup {[authorization |-> NoHeader,
               cookie |-> Cookie(<<[key |-> "token", value |-> token]>>)] :
                  token \in Issued \cup {Empty}}
        \cup {[authorization |-> NoHeader,
               cookie |-> Cookie(<<[key |-> "theme", value |-> token]>>)] :
                  token \in Issued}
        \cup {[authorization |-> Authorization("Bearer ", Empty),
               cookie |-> Cookie(<<[key |-> "token", value |-> token]>>)] :
                  token \in Issued}

Bodies == {"invalid", "incomplete", "complete"}
Outcomes == {"success", "failure", "throws"}

\* The requests follow the login whose token they carry.
RouteCalls == (TokenCalls + 1)..MaxCalls

NextRoutes ==
    \/ Seeding
    \/ Login(1..TokenCalls, {<<AdminEmail, AdminPassword>>})
    \/ \E c \in RouteCalls, request \in Requests : authMeGET(c, request)
    \/ \E c \in RouteCalls, request \in Requests : linodeInstancesGET(c, request)
    \/ \E c \in RouteCalls, request \in Requests, body \in Bodies :
          linodeInstancesPOST(c, request, body)
    \/ \E c \in RouteCalls, request \in Requests : linodeTypesGET(c, request)
    \/ \E c \in RouteCalls, request \in Requests : paystackBillingGET(c, request)
    \/ \E c \in RouteCalls, outcome \in Outcomes : externalAnswers(c, outcome)
    \/ \E t \in Instants : Elapse(t)

SpecRoutes == Init /\ [][NextRoutes]_vars

(***************************************************************************)
(* The AuthProvider: logins, a registration, checks of the cookie and      *)
(* logouts, in any order, with the responses arriving in any order.        *)
(***************************************************************************)
NextClient ==
    \/ Seeding
    \/ \E c \in 1..RaceCalls : login(c, AdminEmail, AdminPassword)
    \/ \E c \in 1..RaceCalls : authenticateUserVerified(c)
    \/ \E c \in 1..RaceCalls, random \in Rands : authenticateUserSigned(c, random)
    \/ \E c \in 1..RaceCalls, arrives \in BOOLEAN : loginResponds(c, arrives)
    \/ \E c \in 1..TokenCalls, name \in RegisterNames :
          register(c, RealUserEmail, StrongPass, name)
    \/ \E c \in 1..TokenCalls, salt \in Salts, random \in Rands :
          registerUserHashed(c, salt, random)
    \/ \E c \in 1..TokenCalls : registerUserSigned(c)
    \/ \E c \in 1..TokenCalls, arrives \in BOOLEAN : registerResponds(c, arrives)
    \/ \E c \in 1..RaceCalls : checkAuthStatus(c)
    \/ \E c \in 1..RaceCalls, arrives \in BOOLEAN : checkAuthStatusResponds(c, arrives)
    \/ \E c \in 1..RaceCalls : logoutCalled(c)

SpecClient == Init /\ [][NextClient]_vars

(***************************************************************************)
(*                              The claims                                 *)
(***************************************************************************)
IsRegistration(c) == calls[c].op = "registerUser"
IsLogin(c) == calls[c].op = "authenticateUser"
Succeeded(c) == Returned(c) /\ calls[c].result.success
Overlap(c, d) == c \in calls[d].during \/ d \in calls[c].during
\* d was called after c had returned
Follows(d, c) == c < d /\ c \notin calls[d].during
RecordsWithEmail(email) == {i \in 1..Len(users) : users[i].value.email = email}
ValidRegistration(c) ==
    /\ IsRegistration(c)
    /\ validateEmail(calls[c].email)
    /\ validatePassword(calls[c].password).valid
Issuers == {c \in Calls : "token" \in DOMAIN calls[c]}
ReadToken == last.op = "getUserByToken"
Accepted == ReadToken /\ ~last.result.isNull

\* C1: of the registerUser calls that run concurrently with the same valid
\* email and valid passwords, only one returns success, the others return
\* 'User already exists', and the registry holds one record of that email.
C1_OneRegistrationWins ==
    \A c, d \in Calls :
        ( /\ c # d
          /\ ValidRegistration(c) /\ ValidRegistration(d)
          /\ calls[c].email = calls[d].email
          /\ Overlap(c, d)
          /\ Returned(c) /\ Returned(d) )
        => /\ ~(calls[c].result.success /\ calls[d].result.success)
           /\ \A e \in {c, d} :
                 ~calls[e].result.success
                     => calls[e].result = Failure("User already exists")
           /\ Cardinality(RecordsWithEmail(calls[c].email)) <= 1

\* C2: in every reachable state no two records of the registry have the
\* same email.
C2_EmailsUnique ==
    \A i, j \in 1..Len(users) : i # j => users[i].value.email # users[j].value.email

\* C3: getUserByToken accepts a token only if signToken issued exactly that
\* token; a token whose claims or signature were altered is rejected, and
\* the user returned is the one the token's own userId names.
C3_OnlyIssuedTokensAccepted ==
    Accepted =>
        /\ last.token \in Issued
        /\ last.result.user.id = last.token.claims.userId

\* C3, its case: an altered copy of a token that is itself still acceptable
\* has been presented and rejected.
C3_TamperedTokenRejected ==
    /\ ReadToken
    /\ last.result.isNull
    /\ \E token \in Issued :
          /\ last.token \in Tampered(token)
          /\ VerifyOutcome(token, last.at) = "ok"

\* C4 as claimed: a token signed at instant T is accepted at every instant
\* before T + 24 hours and rejected from T + 24 hours + 1 second on.
C4_AcceptedUntil24Hours ==
    \A c \in Issuers :
        (ReadToken /\ last.token = calls[c].token)
        => /\ last.at < calls[c].signedAt + TokenTtlMs => ~last.result.isNull
           /\ last.at >= calls[c].signedAt + TokenTtlMs + MsPerSecond => last.result.isNull

\* C4, amended: a token signed at instant T is accepted, and yields the user
\* of its userId, exactly while the clock's whole second is below T's whole
\* second plus 24 hours: at T + 1 second and up to T + 24 hours - 1 second
\* it is accepted, from T + 24 hours on it is rejected.
C4_AcceptedWithinWholeSeconds ==
    \A c \in Issuers :
        (ReadToken /\ last.token = calls[c].token)
        => LET T == calls[c].signedAt
           IN  /\ last.result.isNull <=> epoch(last.at) >= epoch(T) + TokenTtlSeconds
               /\ ~last.result.isNull => last.result.user.id = calls[c].token.claims.userId
               /\ last.at <= T + TokenTtlMs - MsPerSecond => ~last.result.isNull
               /\ last.at >= T + TokenTtlMs => last.result.isNull

\* C4, its case: a token has been presented 24 hours and 1 second after it
\* was signed, and rejected.
C4_RejectedAfter24HoursAndASecond ==
    \E c \in Issuers :
        /\ ReadToken /\ last.token = calls[c].token
        /\ last.at = calls[c].signedAt + TokenTtlMs + MsPerSecond
        /\ last.result.isNull

\* C5: no user record that registerUser, authenticateUser, updateUser,
\* getUserById or getUserByToken returns has a password field.
C5_NoPasswordReturned ==
    /\ \A c \in Calls :
          (Returned(c) /\ calls[c].result.success)
              => "password" \notin DOMAIN calls[c].result.user
    /\ (last.op # "none" /\ ~last.result.isNull)
          => "password" \notin DOMAIN last.result.user

\* C5, its case: updateUser, a registration or login, and a read have each
\* returned a user record.
C5_UsersReturned ==
    /\ \E c \in Calls : calls[c].op = "updateUser" /\ Succeeded(c)
    /\ \E c \in Calls : calls[c].op \in {"registerUser", "authenticateUser"} /\ Succeeded(c)
    /\ last.op # "none" /\ ~last.result.isNull

\* C6: once registerUser(email, password, name) has succeeded, the registry
\* holds a record of that email whose stored password is not the plaintext
\* and verifies the password, and, no updateUser having run, a following
\* authenticateUser(email, p) succeeds exactly when p is that password.
C6_RegisteredPasswordLogsIn ==
    \A r \in Calls :
        ( /\ IsRegistration(r) /\ Succeeded(r)
          /\ \A d \in Calls \ {r} :
                "newUser" \in DOMAIN calls[d] => calls[d].newUser.id # calls[r].newUser.id
          /\ \A u \in Calls : calls[u].op # "updateUser" )
        => /\ \E i \in RecordsWithEmail(calls[r].email) :
                 /\ users[i].value.password # calls[r].password
                 /\ verifyPassword(calls[r].password, users[i].value.password)
           /\ \A a \in Calls :
                 ( /\ IsLogin(a) /\ Returned(a) /\ Follows(a, r)
                   /\ calls[a].email = calls[r].email )
                 => (calls[a].result.success <=> calls[a].password = calls[r].password)

\* C7: a login that fails returns {success: false, error: 'Invalid
\* credentials'} whether the email is unknown or the password is wrong, and
\* in both cases leaves the registry and the session store as they were.
C7_FailedLoginsAlike ==
    [][ \A c \in Calls :
          ( /\ ~Returned(c)
            /\ calls'[c].op = "authenticateUser"
            /\ calls'[c].pc = "done"
            /\ ~calls'[c].result.success )
          => /\ calls'[c].result = [success |-> FALSE, error |-> "Invalid credentials"]
             /\ users' = users
             /\ sessions' = sessions ]_vars

\* C7, its case: one login has failed on an unknown email and another on a
\* wrong password.
C7_BothFailuresSeen ==
    \E c, d \in Calls :
        /\ IsLogin(c) /\ Returned(c) /\ ~calls[c].result.success
        /\ "foundUser" \notin DOMAIN calls[c]
        /\ IsLogin(d) /\ Returned(d) /\ ~calls[d].result.success
        /\ "foundUser" \in DOMAIN calls[d]

\* C8: logout changes neither the registry, nor the sessions, nor any call
\* of the server, and a token the browser has discarded by logout is still
\* accepted by getUserByToken until its 24 hours have run out.
C8_AcceptedAfterLogout ==
    /\ [](\A token \in loggedOut :
            (ReadToken /\ last.token = token /\ epoch(last.at) < token.claims.exp)
                => ~last.result.isNull)
    /\ [][logout => UNCHANGED <<users, sessions, calls>>]_vars

\* C8, its case: after the logout, a second or more into the token's life,
\* the discarded token has been presented and accepted.
C8_LoggedOutTokenAccepted ==
    /\ Accepted
    /\ last.token \in loggedOut
    /\ cookie = {}
    /\ last.at >= MsPerSecond

\* C9: a sweep at instant now removes exactly the sessions with
\* expiresAt < now and leaves the others as they were, in their order;
\* every session that remains has expiresAt >= now.
C9_SweepRemovesExpired ==
    [][ cleanupExpiredSessions
        => /\ sessions' = SelectSeq(sessions, LAMBDA e : e.value.expiresAt >= clock)
           /\ \A i \in 1..Len(sessions') : sessions'[i].value.expiresAt >= clock ]_vars

\* C9, its case: a sweep has removed one login's session and the session of
\* another login is still stored.
C9_SomeSweptSomeKept ==
    \E c, d \in Calls :
        /\ IsLogin(c) /\ Succeeded(c) /\ ~MapHas(sessions, calls[c].sessionId)
        /\ IsLogin(d) /\ Succeeded(d) /\ MapHas(sessions, calls[d].sessionId)

\* C10: a second sweep at the same instant, no login between, removes
\* nothing: the store a sweep leaves is the store a sweep of it leaves.
C10_SweepIdempotent ==
    [][ cleanupExpiredSessions => Sweep(sessions', clock') = sessions' ]_vars

\* C10, its case: two logins have stored two sessions and the sweep has
\* removed both.
C10_AllSwept ==
    /\ sessions = <<>>
    /\ \E c, d \in Calls :
          /\ c # d
          /\ IsLogin(c) /\ Succeeded(c)
          /\ IsLogin(d) /\ Succeeded(d)
          /\ calls[c].sessionId # calls[d].sessionId

\* C11: a sweep, whenever it runs, changes only the session store: the
\* registry, every call and its result, and the clock stay as they are, and
\* every read by token or by id returns right after the sweep what it
\* returned right before it.  A run with the sweep delayed or left out thus
\* yields the same results.
C11_SweepUnobservable ==
    [][ cleanupExpiredSessions
        => /\ UNCHANGED <<users, calls, clock, seeding, cookie, loggedOut, currentUser>>
           /\ \A token \in Issued \cup {Garbage} :
                 UserByToken(token)' = UserByToken(token)
           /\ \A userId \in KnownIds : UserById(userId)' = UserById(userId) ]_vars

\* C11, its case: a sweep has removed the session of one login, and a token
\* of the same user is then presented and accepted.
C11_AcceptedAfterSweep ==
    /\ Accepted
    /\ \E c \in Calls :
          /\ IsLogin(c) /\ Succeeded(c)
          /\ ~MapHas(sessions, calls[c].sessionId)
          /\ calls[c].foundUser.id = last.result.user.id

\* The step in which call c of authenticateUser returns success.
LoginSucceeds(c) ==
    /\ ~Returned(c)
    /\ calls'[c].op = "authenticateUser"
    /\ calls'[c].pc = "done"
    /\ calls'[c].result.success

\* C12: the step in which an authenticateUser call returns success adds
\* exactly one entry to the session store, after the entries already there,
\* under an identifier that was no key of the store, with the userId of the
\* authenticated user and expiresAt = the time of that step + 24 hours.
C12_LoginAddsFreshSession ==
    [][ \A c \in Calls :
          LoginSucceeds(c)
          => /\ calls'[c].sessionId \notin MapKeys(sessions)
             /\ Len(sessions') = Len(sessions) + 1
             /\ SubSeq(sessions', 1, Len(sessions)) = sessions
             /\ sessions'[Len(sessions')] =
                    [key |-> calls'[c].sessionId,
                     value |-> [userId |-> calls[c].foundUser.id,
                                expiresAt |-> clock + SessionTtlMs]] ]_vars

\* C13: the session store changes only in the step in which an
\* authenticateUser call returns success, which removes no key, and in a
\* sweep, which adds none; every step of registerUser, getUserById,
\* getUserByToken, updateUser and of a failing authenticateUser leaves it as
\* it was.
C13_OnlyLoginAndSweepTouchSessions ==
    [][ /\ ((\A c \in Calls : ~LoginSucceeds(c)) /\ ~cleanupExpiredSessions)
              => sessions' = sessions
        /\ (\E c \in Calls : LoginSucceeds(c))
              => MapKeys(sessions) \subseteq MapKeys(sessions')
        /\ cleanupExpiredSessions
              => MapKeys(sessions') \subseteq MapKeys(sessions) ]_vars

\* C13, its case: a registration and an updateUser have succeeded and no
\* session is stored.
C13_RegisteredWithoutSession ==
    /\ sessions = <<>>
    /\ \E c \in Calls : IsRegistration(c) /\ Succeeded(c)
    /\ \E c \in Calls : calls[c].op = "updateUser" /\ Succeeded(c)

\* The instant, in milliseconds, of a token's exp claim.
ExpiresAt(token) == token.claims.exp * MsPerSecond
\* A token of three parts that no signToken call produced.
Altered == ReadToken /\ last.token.parts = 3 /\ last.token \notin Issued

\* C14 as claimed: verification reports Malformed, then BadSignature, then
\* Expired, and reports an unaltered token Expired exactly when
\* now > expiresAt.
C14_ExpiredStrictlyAfter ==
    ReadToken =>
        LET outcome == VerifyOutcome(last.token, last.at)
        IN  /\ last.token.parts # 3 => outcome = "Malformed"
            /\ Altered => outcome = "BadSignature"
            /\ last.token \in Issued
                  => /\ outcome \in {"Expired", "ok"}
                     /\ outcome = "Expired" <=> last.at > ExpiresAt(last.token)

\* C14, amended: verification reports Malformed for a token of the wrong
\* structure, else BadSignature for an altered token, expired or not, else
\* Expired exactly when now >= expiresAt; in all three cases the read
\* returns null.
C14_ExpiredFromExpiryOn ==
    ReadToken =>
        LET outcome == VerifyOutcome(last.token, last.at)
        IN  /\ last.token.parts # 3 => outcome = "Malformed"
            /\ Altered => outcome = "BadSignature"
            /\ last.token \in Issued
                  => /\ outcome \in {"Expired", "ok"}
                     /\ outcome = "Expired" <=> last.at >= ExpiresAt(last.token)
            /\ outcome # "ok" => last.result.isNull

\* C14, its case: a token both altered and expired has been presented.
C14_AlteredAndExpiredRead ==
    /\ Altered
    /\ last.at >= ExpiresAt(last.token)
    /\ last.result.isNull

\* C15: getUserByToken returns null for a token of the wrong structure, for
\* a token that signToken did not produce, for a token presented at or after
\* its expiry, and for a verified token whose userId the registry does not
\* hold; every read by token leaves the registry and the session store as
\* they were.
C15_EveryFailureIsNull ==
    /\ []( ( /\ ReadToken
              /\ \/ last.token.parts # 3
                 \/ last.token \notin Issued \cup Foreign
                 \/ last.at >= ExpiresAt(last.token)
                 \/ ~MapHas(users, last.token.claims.userId) )
            => last.result = Null )
    /\ [][ (\E token \in Presentable \cup Foreign : getUserByToken(token))
            => UNCHANGED <<users, sessions>> ]_vars

\* C15, its case: a token that verifies, of a user the registry does not
\* hold, has been presented and answered with null.
C15_UnknownUserIsNull ==
    /\ ReadToken
    /\ last.token \in Foreign
    /\ VerifyOutcome(last.token, last.at) = "ok"
    /\ last.result = Null

\* The step in which call c of updateUser returns.
UpdateReturns(c) ==
    /\ ~Returned(c)
    /\ calls'[c].op = "updateUser"
    /\ calls'[c].pc = "done"

\* C16: updateUser(id, updates) on an id of the registry stores, in the
\* place of the old record and under the same key, a record with the fields
\* of the old record and of updates, the values of updates overriding the
\* old ones, except that id is the key and updatedAt the time of the call;
\* the other records stay as they were, and the user returned is the stored
\* record without its password.
C16_UpdateMerges ==
    [][ \A c \in Calls :
          (UpdateReturns(c) /\ MapHas(users, calls'[c].userId))
          => LET id == calls'[c].userId
                 updates == calls'[c].updates
                 old == MapGet(users, id)
                 new == MapGet(users', id)
             IN  /\ Len(users') = Len(users)
                 /\ \A i \in 1..Len(users) :
                       /\ users'[i].key = users[i].key
                       /\ users[i].key # id => users'[i] = users[i]
                 /\ DOMAIN new = DOMAIN old \cup DOMAIN updates
                 /\ new.id = id
                 /\ new.updatedAt = clock
                 /\ \A f \in DOMAIN updates \ {"id", "updatedAt"} : new[f] = updates[f]
                 /\ \A f \in DOMAIN old \ (DOMAIN updates \cup {"id", "updatedAt"}) :
                       new[f] = old[f]
                 /\ calls'[c].result.success
                 /\ calls'[c].result.user = [f \in DOMAIN new \ {"password"} |-> new[f]] ]_vars

\* C16, its case: an update that carries another id, a new email and a new
\* role has been stored, a second after the record was created.
C16_UpdatedWithForeignId ==
    \E c \in Calls :
        /\ calls[c].op = "updateUser" /\ Succeeded(c)
        /\ calls[c].updates.id # calls[c].userId
        /\ MapGet(users, calls[c].userId).role = calls[c].updates.role
        /\ MapGet(users, calls[c].userId).updatedAt > MapGet(users, calls[c].userId).createdAt

\* C17: updateUser on an id that is no key of the registry returns
\* {success: false, error: 'User not found'} and leaves the registry and the
\* session store as they were.
C17_UpdateOfUnknownId ==
    [][ \A c \in Calls :
          (UpdateReturns(c) /\ ~MapHas(users, calls'[c].userId))
          => /\ calls'[c].result = [success |-> FALSE, error |-> "User not found"]
             /\ users' = users
             /\ sessions' = sessions ]_vars

\* C17, its case: an update of an unknown id has failed while the registry
\* holds records.
C17_UnknownIdRefused ==
    \E c \in Calls :
        /\ calls[c].op = "updateUser" /\ Returned(c)
        /\ ~calls[c].result.success
        /\ users # <<>>
        /\ ~MapHas(users, calls[c].userId)

\* The step in which call c of registerUser is made.
RegisterCalled(c) == calls[c].pc = "idle" /\ calls'[c].op = "registerUser"

\* C18: a registerUser call with an email of invalid format returns
\* 'Invalid email format' whatever its password; one with a valid email and
\* a password that violates the policy returns the violated rules, joined by
\* ', ', even when the email is already registered; in both cases the call
\* has returned at once, without a hash or a token, and the registry and the
\* session store are as they were.
C18_InvalidInputRefused ==
    [][ \A c \in Calls :
          RegisterCalled(c)
          => LET email == calls'[c].email
                 password == calls'[c].password
                 refused(error) ==
                     /\ calls'[c].pc = "done"
                     /\ calls'[c].result = [success |-> FALSE, error |-> error]
                     /\ "token" \notin DOMAIN calls'[c]
                     /\ users' = users
                     /\ sessions' = sessions
             IN  /\ ~validateEmail(email) => refused("Invalid email format")
                 /\ (validateEmail(email) /\ ~validatePassword(password).valid)
                       => /\ validatePassword(password).errors # <<>>
                          /\ refused(join(validatePassword(password).errors, ", "))
                 /\ (email # BadEmail /\ password = WeakPass)
                       => refused("Password must be at least 8 characters long, "
                                  \o "Password must contain at least one uppercase letter, "
                                  \o "Password must contain at least one special character (@$!%*?&)")
                 /\ (email # BadEmail /\ password = NoSpecialPass)
                       => refused("Password must contain at least one special character (@$!%*?&)")
                 /\ email = BadEmail => refused("Invalid email format") ]_vars

\* C18, its case: a weak password has been refused for an email that is
\* already registered, and an invalid email has been refused with a strong
\* password.
C18_WeakPasswordOnKnownEmail ==
    \E c, d \in Calls :
        /\ IsRegistration(c) /\ Returned(c)
        /\ calls[c].email = AdminEmail /\ calls[c].password = WeakPass
        /\ calls[c].during = {}
        /\ FindIndexByEmail(users, AdminEmail) # 0
        /\ IsRegistration(d) /\ Returned(d)
        /\ calls[d].email = BadEmail /\ calls[d].password = StrongPass

\* C19: a registerUser call with valid inputs whose email is, character for
\* character, the email of a stored record returns 'User already exists'
\* at once, without a token, and leaves the registry as it was; one whose
\* email differs from every stored email, be it only in the case of a
\* letter, passes the duplicate check and goes on to hash the password.
C19_DuplicateIsLiteral ==
    [][ \A c \in Calls :
          ( /\ RegisterCalled(c)
            /\ validateEmail(calls'[c].email)
            /\ validatePassword(calls'[c].password).valid )
          => IF \E i \in 1..Len(users) : users[i].value.email = calls'[c].email
             THEN /\ calls'[c].pc = "done"
                  /\ calls'[c].result = [success |-> FALSE, error |-> "User already exists"]
                  /\ "token" \notin DOMAIN calls'[c]
                  /\ users' = users
             ELSE calls'[c].pc = "hashPassword" ]_vars

\* C19, its case: with the seeded admin stored, a registration of the admin's
\* email has been refused and a registration of the same email with a
\* capital letter has succeeded.
C19_OtherCaseRegistered ==
    \E c, d \in Calls :
        /\ IsRegistration(c) /\ Returned(c) /\ ~calls[c].result.success
        /\ calls[c].email = AdminEmail
        /\ IsRegistration(d) /\ Succeeded(d)
        /\ calls[d].email = UpperAdminEmail
        /\ users # <<>> /\ users[1].key = AdminId

\* The updateUser calls that have updated the record of id.
UpdatesOn(id) ==
    {c \in Calls : calls[c].op = "updateUser" /\ Succeeded(c) /\ calls[c].userId = id}

\* The step in which call c of registerUser stores its record.
RegisterStores(c) ==
    /\ calls[c].op = "registerUser"
    /\ calls[c].pc = "hashPassword"
    /\ calls'[c].pc = "signToken"

\* C20: every write of the registry takes effect in one step, on the record
\* as it is stored at that step.  The step of an updateUser call on a stored
\* id leaves in the registry the stored record with the call's updates merged
\* in, so no field set by an earlier update is lost; the record of an id
\* changes in no other step than that of an updateUser call on that id or
\* that of a registerUser call that stores under that id, whatever calls
\* are suspended at an await; once a registerUser call has returned success
\* its id is a key of the registry; and a read by id returns the stored
\* record, without its password, in full.
C20_UpdatesSerialize ==
    /\ [][ \A c \in Calls :
              (UpdateReturns(c) /\ MapHas(users, calls'[c].userId))
              => LET old == MapGet(users, calls'[c].userId)
                     new == MapGet(users', calls'[c].userId)
                     updates == calls'[c].updates
                 IN  \A f \in DOMAIN new :
                         new[f] = IF f = "id" THEN calls'[c].userId
                                  ELSE IF f = "updatedAt" THEN clock
                                  ELSE IF f \in DOMAIN updates THEN updates[f]
                                  ELSE old[f] ]_vars
    /\ [][ \A id \in MapKeys(users) :
              MapGet(users', id) # MapGet(users, id)
              => \/ \E c \in Calls : UpdateReturns(c) /\ calls'[c].userId = id
                 \/ \E c \in Calls :
                       /\ RegisterStores(c)
                       /\ calls'[c].newUser.id = id
                       /\ MapGet(users', id) = calls'[c].newUser ]_vars
    /\ [](\A r \in Calls :
             (IsRegistration(r) /\ Succeeded(r)) => MapHas(users, calls[r].newUser.id))
    /\ [](last.op = "getUserById"
             => IF MapHas(users, last.userId)
                THEN LET user == MapGet(users, last.userId)
                     IN  last.result =
                             [isNull |-> FALSE,
                              user |-> [f \in DOMAIN user \ {"password"} |-> user[f]]]
                ELSE last.result = [isNull |-> TRUE])

\* C20, its case: two updates of the admin's record, of different fields,
\* have run while a login of the admin was suspended at an await; the login
\* has returned, and a read by id shows both updates.
C20_BothUpdatesRead ==
    /\ last.op = "getUserById"
    /\ ~last.result.isNull
    /\ last.result.user.name = "Renamed"
    /\ last.result.user.role = "user"
    /\ \E a, c, d \in Calls :
          /\ IsLogin(a) /\ Succeeded(a)
          /\ c # d
          /\ c \in UpdatesOn(last.userId) /\ a \in calls[c].during
          /\ d \in UpdatesOn(last.userId) /\ a \in calls[d].during
          /\ calls[a].foundUser.id = last.userId

\* The rules of the password policy, in the order they are checked, each
\* with the message of its violation.
PolicyMessages ==
    <<"Password must be at least 8 characters long",
      "Password must contain at least one lowercase letter",
      "Password must contain at least one uppercase letter",
      "Password must contain at least one number",
      "Password must contain at least one special character (@$!%*?&)">>

Violates(password, rule) ==
    CASE rule = 1 -> Len(password) < 8
      [] rule = 2 -> ~\E i \in 1..Len(password) : password[i] \in LowerCase
      [] rule = 3 -> ~\E i \in 1..Len(password) : password[i] \in UpperCase
      [] rule = 4 -> ~\E i \in 1..Len(password) : password[i] \in Digits
      [] rule = 5 -> ~\E i \in 1..Len(password) :
                         password[i] \in {"@", "$", "!", "%", "*", "?", "&"}

\* C21: validatePassword returns the messages of exactly the rules the
\* password violates, each once and in the order of the rules, and valid is
\* true exactly when there is none; a password of fewer than 8 characters
\* gets the length message, a password that meets the five rules gets no
\* message.
C21_AllViolatedRulesReported ==
    last.op = "validatePassword"
    => LET password == last.password
           result == last.result
           violated == SelectSeq(<<1, 2, 3, 4, 5>>, LAMBDA rule : Violates(password, rule))
       IN  /\ result.errors = [k \in 1..Len(violated) |-> PolicyMessages[violated[k]]]
           /\ result.valid <=> violated = <<>>
           /\ Len(password) < 8 => \E k \in 1..Len(result.errors) :
                                       result.errors[k] = PolicyMessages[1]
           /\ (\A rule \in 1..5 : ~Violates(password, rule))
                 => result = [valid |-> TRUE, errors |-> <<>>]

\* C21, its case: a password of 8 characters or more that violates several
\* rules has been validated and has got a message for each of them.
C21_SeveralRulesReported ==
    /\ last.op = "validatePassword"
    /\ Len(last.password) >= 8
    /\ Len(last.result.errors) >= 3
    /\ ~last.result.valid

SessionGone(c) ==
    /\ IsLogin(c) /\ Succeeded(c)
    /\ calls[c].sessionId[2] + SessionTtlMs < clock
    /\ ~MapHas(sessions, calls[c].sessionId)

\* C23: with the timer firing and time advancing, the session of every login
\* that has returned success is, from some point after its expiresAt on, no
\* longer in the store, and stays out of it.
C23_EverySessionSwept ==
    \A c \in Calls : (IsLogin(c) /\ Succeeded(c)) ~> []SessionGone(c)

\* C23, its case: the sessions of two logins, made at different instants,
\* have both expired and been removed.
C23_BothSessionsGone ==
    \E c, d \in Calls :
        /\ SessionGone(c) /\ SessionGone(d)
        /\ calls[c].sessionId[2] # calls[d].sessionId[2]

\* C24: every record of the registry is stored under its own id; every key
\* of the registry stays a key; and the record under a key changes only in
\* the step of an updateUser call on that key, which keeps its id: no
\* record is replaced by the record of another user.
C24_IdsStable ==
    /\ [](\A i \in 1..Len(users) : users[i].value.id = users[i].key)
    /\ [][ \A i \in 1..Len(users) :
              /\ MapHas(users', users[i].key)
              /\ MapGet(users', users[i].key).id = users[i].value.id
              /\ MapGet(users', users[i].key) # users[i].value
                    => \E c \in Calls :
                           UpdateReturns(c) /\ calls'[c].userId = users[i].key ]_vars

\* C25: getUserByToken of a token that verifies (signed with the secret,
\* not expired) returns the registry's record under the token's userId,
\* without its password, or null when the registry holds none: the email
\* and the role of the token's claims play no part, so a token issued
\* before an updateUser changed them yields the updated record.
C25_ReadByIdOnly ==
    (ReadToken /\ VerifyOutcome(last.token, last.at) = "ok")
        => LET id == last.token.claims.userId
           IN  IF MapHas(users, id)
               THEN last.result = Some(WithoutPassword(MapGet(users, id)))
               ELSE last.result = Null

\* C25, its case: after an updateUser on the record of a login, the token
\* of that login is accepted and the record returned carries another email
\* than the token's claims.
C25_ReadAfterUpdate ==
    /\ Accepted
    /\ \E c \in Calls : IsLogin(c) /\ Succeeded(c) /\ calls[c].token = last.token
    /\ last.result.user.email # last.token.claims.email
    /\ UpdatesOn(last.token.claims.userId) # {}

\* C26: no step of a registerUser or authenticateUser call, from its
\* invocation to its return, is taken while initializeUsers has not yet
\* inserted both seed users.
C26_SeededBeforeServed ==
    [][ \A c \in Calls :
          (calls'[c] # calls[c] /\ calls'[c].op \in {"registerUser", "authenticateUser"})
              => (seeding = "done" /\ MapHas(users, AdminId) /\ MapHas(users, DemoId)) ]_vars

\* C27: in the step in which an authenticateUser call returns success, the
\* user it returns is the registry's record of that id without its
\* password, and the userId, email and role of the token's claims are those
\* of that record, whatever updateUser calls have returned since the login
\* was called.
C27_LoginReturnsCurrent ==
    [][ \A c \in Calls :
          LoginSucceeds(c)
              => LET id == calls'[c].result.user.id
                     claims == calls'[c].result.token.claims
                 IN  /\ MapHas(users', id)
                     /\ calls'[c].result.user = WithoutPassword(MapGet(users', id))
                     /\ [f \in {"userId", "email", "role"} |-> claims[f]]
                            = TokenPayloadOf(MapGet(users', id)) ]_vars

Routes ==
    {"GET /api/auth/me", "GET /api/linode/instances", "POST /api/linode/instances",
     "GET /api/linode/types", "GET /api/paystack/billing"}
IsRoute(c) == calls[c].op \in Routes
\* The step in which a request reaches the handler of a route.
RouteCalled(c) == calls[c].pc = "idle" /\ calls'[c].op \in Routes

\* C28: a request to a protected route from which no token is extracted,
\* or for whose token getUserByToken returns no user, is answered 401 at
\* once, without a call of the external client; the handler of a request
\* calls the external client, if at all, once it has authenticated the
\* request, and answers nothing but 401 before that.
C28_NoExternalCallUnauthenticated ==
    /\ [][ \A c \in Calls :
              RouteCalled(c)
                  => LET token == extractTokenFromRequest(calls'[c].request)
                         authenticated ==
                             /\ ~token.isNull
                             /\ ~UserByToken(token.token).isNull
                     IN  ~authenticated
                             => /\ calls'[c].pc = "done"
                                /\ calls'[c].result.status = 401
                                /\ calls'[c].external = "none" ]_vars
    /\ [][ \A c \in Calls :
              IsRoute(c) => calls'[c].external = calls[c].external ]_vars
    /\ [](\A c \in Calls :
              (IsRoute(c) /\ calls[c].external # "none")
                  => LET token == extractTokenFromRequest(calls[c].request)
                     IN  /\ ~token.isNull
                         /\ ~verifyToken(token.token, calls[c].at).isNull
                         /\ MapHas(users, token.token.claims.userId))

\* C28, its case: a request to a Linode or Paystack route that carries the
\* token of a login in its cookie, made once the token has expired, has
\* been answered 401 without a call of the external client.
C28_ExpiredTokenRefused ==
    \E c, d \in Calls :
        /\ IsLogin(c) /\ Succeeded(c)
        /\ IsRoute(d) /\ Returned(d) /\ calls[d].result.status = 401
        /\ calls[d].op # "GET /api/auth/me"
        /\ calls[d].external = "none"
        /\ calls[d].request.authorization.isNull
        /\ ~calls[d].request.cookie.isNull
        /\ CookieValue(calls[d].request.cookie.pairs, "token") = calls[c].result.token

\* C29: the step in which an updateUser call with updates of User fields
\* returns leaves the password hash of the record of its id as it was and
\* every other entry of the registry as it was, in its place; a password
\* with which a login of that user had succeeded and which verified against
\* the stored hash before the step verifies against it after the step.
C29_UpdateKeepsPassword ==
    [][ \A c \in Calls :
          UpdateReturns(c)
              => LET id == calls'[c].userId
                 IN  /\ Len(users') = Len(users)
                     /\ \A i \in 1..Len(users) :
                            /\ users'[i].key = users[i].key
                            /\ users[i].key # id => users'[i] = users[i]
                     /\ MapHas(users, id)
                            => /\ MapGet(users', id).password = MapGet(users, id).password
                               /\ \A d \in Calls :
                                      ( /\ IsLogin(d) /\ Succeeded(d)
                                        /\ calls[d].result.user.id = id
                                        /\ verifyPassword(calls[d].password,
                                                          MapGet(users, id).password) )
                                      => verifyPassword(calls[d].password,
                                                        MapGet(users', id).password) ]_vars

\* C29, its case: a login of the admin has succeeded, an updateUser on the
\* admin's record has since changed its email and the password of the login
\* verifies against the stored hash, beside the record of another user.
C29_UpdatedAfterLogin ==
    \E c, d \in Calls :
        /\ IsLogin(d) /\ Succeeded(d)
        /\ calls[c].op = "updateUser" /\ Succeeded(c)
        /\ d \notin calls[c].during /\ d < c
        /\ calls[c].userId = calls[d].result.user.id
        /\ MapGet(users, calls[c].userId).email # calls[d].email
        /\ verifyPassword(calls[d].password, MapGet(users, calls[c].userId).password)
        /\ Len(users) > 1

\* C30: once logout() has been called, the user state of the AuthProvider
\* is null and the cookie holds no token unless a login or a registration
\* that was called after the last logout has succeeded and its response
\* has been received.
C30_LoggedOutStays ==
    \A l \in Calls :
        (calls[l].op = "logout" /\ \A m \in Calls : m > l => calls[m].op # "logout")
            => \/ currentUser = Null /\ cookie = {}
               \/ \E d \in Calls :
                      /\ d > l
                      /\ IsLogin(d) \/ IsRegistration(d)
                      /\ Succeeded(d)
                      /\ Received(d)

=============================================================================
